---- MODULE Spec2Model ----
(***************************************************************************)
(* Session-token lifecycle of the RTR authentication layer:                *)
(*   lib/crypto.ts, lib/fasttrak.ts, lib/auth/token-service.ts,            *)
(*   lib/auth/callbacks.ts, lib/auth/providers.ts, lib/auth/user-service.ts*)
(***************************************************************************)
EXTENDS Integers, Sequences, FiniteSets, TLC

(***************************************************************************)
(* Bounds of the model                                                     *)
(***************************************************************************)
MaxKey == 2                          \* deployment keys 1..MaxKey
MaxSignInMs == 1                     \* ms between authorize and the jwt callback
MaxCallers == 4                      \* connectToDB calls of one process
MaxTextLen == 2                      \* code units of a text handed to encrypt

(***************************************************************************)
(* Program constants                                                       *)
(***************************************************************************)
TOKEN_REFRESH_BUFFER_MS == 10000
MsPerSecond == 1000

(***************************************************************************)
(* Input domains                                                           *)
(***************************************************************************)
Instants == {0, 1, 999, 1000, 1001}  \* the clock values requests arrive at
ExternalIds == {"u1", "u2"}
RoleSets == {{"Admin"}, {"Viewer"}}
AccessTtls == {11}                   \* seconds an access token lives
RefreshTtls == {20}                  \* seconds a refresh token lives

(***************************************************************************)
(* Optional values (a JavaScript property that may be undefined)           *)
(***************************************************************************)
Absent == <<>>
Some(v) == <<v>>
Has(o) == o # <<>>
Val(o) == o[1]
Opt(S) == {Absent} \cup {Some(v) : v \in S}

(***************************************************************************)
(* JavaScript numbers: a finite integer or NaN                             *)
(***************************************************************************)
Num(n) == [nan |-> FALSE, v |-> n]
NaN == [nan |-> TRUE, v |-> 0]
\* undefined coerced to a number is NaN
ToNumber(o) == IF Has(o) THEN Num(Val(o)) ELSE NaN
JsAdd(a, b) == IF a.nan \/ b.nan THEN NaN ELSE Num(a.v + b.v)
JsSub(a, b) == IF a.nan \/ b.nan THEN NaN ELSE Num(a.v - b.v)
JsMul(a, b) == IF a.nan \/ b.nan THEN NaN ELSE Num(a.v * b.v)
\* Math.floor(a / d) for a positive integer d
JsFloorDiv(a, d) == IF a.nan THEN NaN ELSE Num(a.v \div d)
\* a >= b is false when either side is NaN
JsGe(a, b) == ~a.nan /\ ~b.nan /\ a.v >= b.v
JsLt(a, b) == ~a.nan /\ ~b.nan /\ a.v < b.v
\* !x for a number: undefined, NaN and 0 are falsy
FalsyNum(o) == ~Has(o) \/ Val(o).nan \/ Val(o).v = 0

VARIABLES
    now,        \* Date.now()
    KEY,        \* lib/crypto.ts KEY, fixed at module load
    users,      \* RtrUser collection, keyed by fasttrakId
    token,      \* the session token (JWT) held by the client
    session,    \* the session the last request materialized, if it did
    last,       \* what the last operation did
    reqs,       \* the session reads in flight, one jwt callback each
    box,        \* the last call of encrypt / decrypt on a text, byte by byte
    cached,     \* lib/db.ts cached (global._mongo)
    calls       \* the connectToDB calls of the process

vars == <<now, KEY, users, token, session, last, reqs, box, cached, calls>>

(***************************************************************************)
(* lib/crypto.ts                                                           *)
(* A ciphertext blob iv || tag || ciphertext is the pair of the key it was *)
(* sealed under and the plaintext it carries: blobs are told apart up to   *)
(* their random iv.                                                        *)
(***************************************************************************)
\* encrypt(text) under key k; cipher.update(undefined)
\* throws a TypeError, so the argument must be a string
EncryptThrows(text) == ~Has(text)
encrypt(k, text) == [key |-> k, pt |-> Val(text)]
\* decrypt(data): decipher.final() throws unless the auth tag verifies,
\* which it does exactly under the key the blob was sealed with
DecryptThrows(k, data) == data.key # k
decrypt(k, data) == data.pt

(***************************************************************************)
(* lib/crypto.ts, byte by byte                                             *)
(* A JavaScript string is a sequence of UTF-16 code units, a Buffer a      *)
(* sequence of bytes, a base64 string a sequence of sextets (64 is '=').   *)
(***************************************************************************)
IV_LENGTH == 12
AUTH_TAG_LENGTH == 16

\* the code units texts are made of: 'a', e-acute (two bytes of UTF-8), the
\* euro sign (three), and the two halves of a surrogate pair (four together)
CodeUnits == {97, 233, 8364, 55357, 56832}
RECURSIVE StringsOfLen(_)
StringsOfLen(n) ==
    IF n = 0 THEN {<<>>}
    ELSE {<<u>> \o s : u \in CodeUnits, s \in StringsOfLen(n - 1)}
Strings == UNION {StringsOfLen(n) : n \in 0..MaxTextLen}

\* crypto.randomBytes(IV_LENGTH)
Ivs == {[i \in 1..IV_LENGTH |-> v] : v \in {0, 255}}

IsHighSurrogate(u) == u \in 55296..56319
IsLowSurrogate(u) == u \in 56320..57343
ReplacementChar == 65533

\* Buffer.from(text, 'utf8'), as cipher.update(text, 'utf8') encodes its
\* input: a surrogate pair is one four-byte character, a surrogate without
\* its other half is encoded as U+FFFD
RECURSIVE Utf8Encode(_)
Utf8Encode(s) ==
    IF s = <<>> THEN <<>>
    ELSE LET u == Head(s)
         IN IF IsHighSurrogate(u) /\ Len(s) >= 2 /\ IsLowSurrogate(s[2])
            THEN LET cp == 65536 + (u - 55296) * 1024 + (s[2] - 56320)
                 IN <<240 + (cp \div 262144), 128 + ((cp \div 4096) % 64),
                      128 + ((cp \div 64) % 64), 128 + (cp % 64)>>
                    \o Utf8Encode(SubSeq(s, 3, Len(s)))
            ELSE IF IsHighSurrogate(u) \/ IsLowSurrogate(u)
            THEN <<239, 191, 189>> \o Utf8Encode(Tail(s))
            ELSE IF u < 128 THEN <<u>> \o Utf8Encode(Tail(s))
            ELSE IF u < 2048
            THEN <<192 + (u \div 64), 128 + (u % 64)>> \o Utf8Encode(Tail(s))
            ELSE <<224 + (u \div 4096), 128 + ((u \div 64) % 64), 128 + (u % 64)>>
                 \o Utf8Encode(Tail(s))

\* buffer.toString('utf8'); a byte that starts no character decodes to U+FFFD
RECURSIVE Utf8Decode(_)
Utf8Decode(b) ==
    IF b = <<>> THEN <<>>
    ELSE LET b1 == Head(b)
         IN IF b1 < 128 THEN <<b1>> \o Utf8Decode(Tail(b))
            ELSE IF b1 \in 192..223 /\ Len(b) >= 2
            THEN <<(b1 - 192) * 64 + (b[2] - 128)>>
                 \o Utf8Decode(SubSeq(b, 3, Len(b)))
            ELSE IF b1 \in 224..239 /\ Len(b) >= 3
            THEN <<(b1 - 224) * 4096 + (b[2] - 128) * 64 + (b[3] - 128)>>
                 \o Utf8Decode(SubSeq(b, 4, Len(b)))
            ELSE IF b1 \in 240..247 /\ Len(b) >= 4
            THEN LET cp == (b1 - 240) * 262144 + (b[2] - 128) * 4096
                           + (b[3] - 128) * 64 + (b[4] - 128)
                 IN <<55296 + ((cp - 65536) \div 1024), 56320 + ((cp - 65536) % 1024)>>
                    \o Utf8Decode(SubSeq(b, 5, Len(b)))
            ELSE <<ReplacementChar>> \o Utf8Decode(Tail(b))

\* buffer.toString('base64')
RECURSIVE Base64Encode(_)
Base64Encode(b) ==
    IF b = <<>> THEN <<>>
    ELSE IF Len(b) = 1
    THEN <<b[1] \div 4, (b[1] % 4) * 16, 64, 64>>
    ELSE IF Len(b) = 2
    THEN <<b[1] \div 4, (b[1] % 4) * 16 + (b[2] \div 16), (b[2] % 16) * 4, 64>>
    ELSE <<b[1] \div 4, (b[1] % 4) * 16 + (b[2] \div 16),
           (b[2] % 16) * 4 + (b[3] \div 64), b[3] % 64>>
         \o Base64Encode(SubSeq(b, 4, Len(b)))

\* Buffer.from(data, 'base64')
RECURSIVE Base64Decode(_)
Base64Decode(d) ==
    IF Len(d) < 4 THEN <<>>
    ELSE LET one == d[1] * 4 + (d[2] \div 16)
             two == (d[2] % 16) * 16 + (d[3] \div 4)
             three == (d[3] % 4) * 64 + d[4]
         IN IF d[3] = 64 THEN <<one>>
            ELSE IF d[4] = 64 THEN <<one, two>>
            ELSE <<one, two, three>> \o Base64Decode(SubSeq(d, 5, Len(d)))

\* aes-256-gcm of node:crypto, as a keyed stream with an authentication
\* tag over key, iv and ciphertext
GcmPad(k, iv, i) == (31 * k + iv[(i % IV_LENGTH) + 1] + i) % 256
GcmEncrypt(k, iv, bytes) ==
    [i \in 1..Len(bytes) |-> (bytes[i] + GcmPad(k, iv, i)) % 256]
GcmDecrypt(k, iv, bytes) ==
    [i \in 1..Len(bytes) |-> (bytes[i] + 256 - GcmPad(k, iv, i)) % 256]
GcmTag(k, iv, bytes) ==
    [i \in 1..AUTH_TAG_LENGTH |->
        (k + iv[1] + Len(bytes) + i
           + (IF bytes = <<>> THEN 0 ELSE bytes[1] + bytes[Len(bytes)])) % 256]

\* encrypt(text) with the iv that randomBytes drew
encryptBlob(k, iv, text) ==
    LET encrypted == GcmEncrypt(k, iv, Utf8Encode(text))
        tag == GcmTag(k, iv, encrypted)
    IN Base64Encode(iv \o tag \o encrypted)

\* the three slices decrypt(data) takes of the decoded blob
BlobIv(b) == SubSeq(b, 1, IV_LENGTH)
BlobTag(b) == SubSeq(b, IV_LENGTH + 1, IV_LENGTH + AUTH_TAG_LENGTH)
BlobEncrypted(b) == SubSeq(b, IV_LENGTH + AUTH_TAG_LENGTH + 1, Len(b))

\* decipher.final() throws unless the tag is the one of key, iv and ciphertext
DecryptBlobThrows(k, data) ==
    LET b == Base64Decode(data)
    IN \/ Len(b) < IV_LENGTH + AUTH_TAG_LENGTH
       \/ BlobTag(b) # GcmTag(k, BlobIv(b), BlobEncrypted(b))

\* variant: the plaintext bytes are turned into a string as latin1, one
\* code unit per byte
decryptBlobLatin1(k, data) ==
    LET b == Base64Decode(data)
    IN GcmDecrypt(k, BlobIv(b), BlobEncrypted(b))

decryptBlob(k, data) ==
    LET b == Base64Decode(data)
    IN Utf8Decode(GcmDecrypt(k, BlobIv(b), BlobEncrypted(b)))

(***************************************************************************)
(* lib/fasttrak.ts : what the identity provider answers                    *)
(***************************************************************************)
\* transport / status / body outcomes of one fetch
Transport == {"ok", "unreachable", "non2xx", "badjson"}

\* a well-formed JSON payload of POST /authenticate
AuthPayload(id, roles) ==
    [id |-> id,
     accessToken |-> Some("a1"),
     refreshToken |-> Some("r1"),
     accessTokenExpirationSeconds |-> Some(CHOOSE s \in AccessTtls : TRUE),
     refreshTokenExpiratinSeconds |-> Some(CHOOSE s \in RefreshTtls : TRUE),
     roles |-> roles]

\* a payload with one property missing
Without(payload, field) == [payload EXCEPT ![field] = Absent]

\* JSON payloads of POST /authenticate: the well-formed ones, and for one
\* user the ones that lack a token or a lifetime
AuthPayloads ==
    {AuthPayload(id, roles) : id \in ExternalIds, roles \in RoleSets}
    \cup {Without(AuthPayload("u1", {"Viewer"}), f) :
            f \in {"accessToken", "refreshToken", "accessTokenExpirationSeconds"}}

\* a well-formed JSON payload of POST /refresh; refreshToken is optional
RefreshPayload(refreshToken) ==
    [accessToken |-> Some("a2"),
     refreshToken |-> refreshToken,
     accessTokenExpirationSeconds |-> Some(CHOOSE s \in AccessTtls : TRUE),
     refreshTokenExpirationSeconds |-> Some(CHOOSE s \in RefreshTtls : TRUE)]

RefreshPayloads ==
    {RefreshPayload(Absent), RefreshPayload(Some("r2"))}
    \cup {Without(RefreshPayload(Some("r2")), f) :
            f \in {"accessToken", "accessTokenExpirationSeconds"}}

\* a response: transport outcome, number of leading //-comment lines, payload;
\* the payload of a failed transport is never looked at, and one well-formed
\* payload also arrives behind a comment line
Response(P, wellFormed) ==
    [transport : {"ok"}, comments : {0}, json : P]
    \cup {[transport |-> "ok", comments |-> 1, json |-> wellFormed]}
    \cup [transport : Transport \ {"ok"}, comments : {0}, json : {wellFormed}]

AuthResponses == Response(AuthPayloads, AuthPayload("u1", {"Viewer"}))
RefreshResponses == Response(RefreshPayloads, RefreshPayload(Some("r2")))

\* responseText.replace(/^\/\/.*$/gm, '').trim()
StripComments(res) == [res EXCEPT !.comments = 0]
\* JSON.parse of a body: fails on a comment line or on an invalid payload
ParseThrows(res) == res.comments > 0 \/ res.transport = "badjson"

\* authenticateFastTrak: throws on fetch failure, !res.ok or invalid JSON
AuthenticateThrows(res) ==
    \/ res.transport \in {"unreachable", "non2xx"}
    \/ ParseThrows(StripComments(res))
authenticateFastTrak(res) == res.json

\* refreshFastTrakToken: parses responseText as it was received
RefreshThrows(res) ==
    \/ res.transport \in {"unreachable", "non2xx"}
    \/ ParseThrows(res)
refreshFastTrakToken(res) == res.json

(***************************************************************************)
(* lib/auth/token-service.ts                                               *)
(***************************************************************************)
\* the four token fields of a TokenData
TokenFields == {"accessToken", "refreshToken",
                "accessTokenExpiresAt", "refreshTokenExpiresAt"}

\* encryptTokens throws when encrypt is handed a non-string
EncryptTokensThrows(accessToken, refreshToken) ==
    EncryptThrows(accessToken) \/ EncryptThrows(refreshToken)

\* variant: the access token is stored as the provider issued it
encryptTokensPlainAccess(k, t, accessToken, refreshToken, accessSecs, refreshSecs) ==
    [accessToken |-> [key |-> 0, pt |-> Val(accessToken)],
     refreshToken |-> encrypt(k, refreshToken),
     accessTokenExpiresAt |-> JsAdd(Num(t), JsMul(accessSecs, Num(MsPerSecond))),
     refreshTokenExpiresAt |-> JsAdd(Num(t), JsMul(refreshSecs, Num(MsPerSecond)))]

encryptTokens(k, t, accessToken, refreshToken, accessSecs, refreshSecs) ==
    [accessToken |-> encrypt(k, accessToken),
     refreshToken |-> encrypt(k, refreshToken),
     accessTokenExpiresAt |-> JsAdd(Num(t), JsMul(accessSecs, Num(MsPerSecond))),
     refreshTokenExpiresAt |-> JsAdd(Num(t), JsMul(refreshSecs, Num(MsPerSecond)))]

\* variant: refreshes only once the buffer is strictly exceeded
shouldRefreshTokenStrict(tok, t) ==
    IF ~Has(tok.accessToken) \/ FalsyNum(tok.accessTokenExpiresAt)
    THEN TRUE
    ELSE LET threshold == JsSub(Val(tok.accessTokenExpiresAt), Num(TOKEN_REFRESH_BUFFER_MS))
         IN JsGe(Num(t), threshold) /\ Num(t) # threshold

\* variant: refreshes on every read
shouldRefreshTokenAlways(tok, t) == TRUE

shouldRefreshToken(tok, t) ==
    IF ~Has(tok.accessToken) \/ FalsyNum(tok.accessTokenExpiresAt)
    THEN TRUE
    ELSE JsGe(Num(t), JsSub(Val(tok.accessTokenExpiresAt), Num(TOKEN_REFRESH_BUFFER_MS)))

\* refreshAccessToken: decrypt, provider call, encrypt; any of them may throw
RefreshAccessTokenThrows(k, encryptedRefreshToken, res) ==
    \/ DecryptThrows(k, encryptedRefreshToken)
    \/ RefreshThrows(res)
    \/ EncryptThrows(refreshFastTrakToken(res).accessToken)

\* the provider is reached once the stored refresh token has decrypted
RefreshCallMade(k, encryptedRefreshToken) == ~DecryptThrows(k, encryptedRefreshToken)

\* variant: never adopts the refresh token the provider rotated to
refreshAccessTokenNoRotation(k, t, encryptedRefreshToken, res) ==
    LET refreshToken == decrypt(k, encryptedRefreshToken)
        refreshed == refreshFastTrakToken(res)
    IN [accessToken |-> encrypt(k, refreshed.accessToken),
        refreshToken |-> encrypt(k, Some(refreshToken)),
        accessTokenExpiresAt |->
            JsAdd(Num(t), JsMul(ToNumber(refreshed.accessTokenExpirationSeconds),
                                Num(MsPerSecond))),
        refreshTokenExpiresAt |->
            JsAdd(Num(t), JsMul(ToNumber(refreshed.refreshTokenExpirationSeconds),
                                Num(MsPerSecond)))]

refreshAccessToken(k, t, encryptedRefreshToken, res) ==
    LET refreshToken == decrypt(k, encryptedRefreshToken)
        refreshed == refreshFastTrakToken(res)
        \* refreshed.refreshToken || refreshToken
        kept == IF Has(refreshed.refreshToken) THEN refreshed.refreshToken
                ELSE Some(refreshToken)
    IN [accessToken |-> encrypt(k, refreshed.accessToken),
        refreshToken |-> encrypt(k, kept),
        accessTokenExpiresAt |->
            JsAdd(Num(t), JsMul(ToNumber(refreshed.accessTokenExpirationSeconds),
                                Num(MsPerSecond))),
        refreshTokenExpiresAt |->
            JsAdd(Num(t), JsMul(ToNumber(refreshed.refreshTokenExpirationSeconds),
                                Num(MsPerSecond)))]

decryptAccessToken(k, encryptedToken) == decrypt(k, encryptedToken)

(***************************************************************************)
(* lib/auth/callbacks.ts                                                   *)
(***************************************************************************)
\* a token as the framework first hands it to the jwt callback
EmptyToken ==
    [rtrUserId |-> Absent, fasttrakId |-> Absent, roles |-> Absent,
     accessToken |-> Absent, refreshToken |-> Absent,
     accessTokenExpiresAt |-> Absent, refreshTokenExpiresAt |-> Absent,
     error |-> Absent]

\* variant: stores the access token and its expiry, not the refresh pair
StoreTokensAccessOnly(tok, d) ==
    [tok EXCEPT !.accessToken = Some(d.accessToken),
                !.accessTokenExpiresAt = Some(d.accessTokenExpiresAt)]

\* token.accessToken = d.accessToken; ... for the four fields of a TokenData
StoreTokens(tok, d) ==
    [tok EXCEPT !.accessToken = Some(d.accessToken),
                !.refreshToken = Some(d.refreshToken),
                !.accessTokenExpiresAt = Some(d.accessTokenExpiresAt),
                !.refreshTokenExpiresAt = Some(d.refreshTokenExpiresAt)]

\* variant: the catch block forgets to delete the refresh token
ClearTokensKeepRefresh(tok) ==
    [tok EXCEPT !.accessToken = Absent,
                !.accessTokenExpiresAt = Absent,
                !.refreshTokenExpiresAt = Absent,
                !.error = Some("RefreshAccessTokenError")]

\* variant: the catch block deletes the tokens without recording the error
ClearTokensNoError(tok) ==
    [tok EXCEPT !.accessToken = Absent,
                !.refreshToken = Absent,
                !.accessTokenExpiresAt = Absent,
                !.refreshTokenExpiresAt = Absent]

\* the catch block of jwtCallback
ClearTokens(tok) ==
    [tok EXCEPT !.accessToken = Absent,
                !.refreshToken = Absent,
                !.accessTokenExpiresAt = Absent,
                !.refreshTokenExpiresAt = Absent,
                !.error = Some("RefreshAccessTokenError")]

\* jwtCallback with a user: the sign-in branch
JwtLogin(tok, user, k, t) ==
    LET t1 == [tok EXCEPT !.rtrUserId = Some(user.id),
                          !.roles = Some(user.roles),
                          !.fasttrakId = Some(user.fasttrakId)]
        accessSecs == JsFloorDiv(JsSub(user._accessTokenExpiresAt, Num(t)), MsPerSecond)
        refreshSecs == JsFloorDiv(JsSub(user._refreshTokenExpiresAt, Num(t)), MsPerSecond)
    IN IF EncryptTokensThrows(user._accessToken, user._refreshToken)
       THEN [threw |-> TRUE, token |-> tok, outcome |-> "threw",
             called |-> FALSE, sent |-> Absent]
       ELSE [threw |-> FALSE,
             token |-> StoreTokens(t1, encryptTokens(k, t,
                           user._accessToken, user._refreshToken,
                           accessSecs, refreshSecs)),
             outcome |-> "stored", called |-> FALSE, sent |-> Absent]

\* variant: the refresh call presents the access token as the refresh token
JwtReadPresentsAccessToken(tok, k, t, res) ==
    IF ~shouldRefreshToken(tok, t)
    THEN [threw |-> FALSE, token |-> tok, outcome |-> "reused",
          called |-> FALSE, sent |-> Absent]
    ELSE IF ~Has(tok.refreshToken) \/ ~Has(tok.fasttrakId)
    THEN [threw |-> FALSE, token |-> ClearTokens(tok), outcome |-> "failed",
          called |-> FALSE, sent |-> Absent]
    ELSE LET enc == Val(tok.refreshToken)
             called == RefreshCallMade(k, enc)
             sent == IF called
                     THEN Some([fasttrakId |-> Val(tok.fasttrakId),
                                refreshToken |->
                                    IF Has(tok.accessToken)
                                    THEN decrypt(k, Val(tok.accessToken))
                                    ELSE decrypt(k, enc)])
                     ELSE Absent
         IN IF RefreshAccessTokenThrows(k, enc, res)
            THEN [threw |-> FALSE, token |-> ClearTokens(tok), outcome |-> "failed",
                  called |-> called, sent |-> sent]
            ELSE [threw |-> FALSE,
                  token |-> StoreTokens(tok, refreshAccessToken(k, t, enc, res)),
                  outcome |-> "refreshed", called |-> called, sent |-> sent]

\* jwtCallback without a user: reuse, refresh or fail
JwtRead(tok, k, t, res) ==
    IF ~shouldRefreshToken(tok, t)
    THEN [threw |-> FALSE, token |-> tok, outcome |-> "reused",
          called |-> FALSE, sent |-> Absent]
    ELSE IF ~Has(tok.refreshToken) \/ ~Has(tok.fasttrakId)
    THEN [threw |-> FALSE, token |-> ClearTokens(tok), outcome |-> "failed",
          called |-> FALSE, sent |-> Absent]
    ELSE LET enc == Val(tok.refreshToken)
             called == RefreshCallMade(k, enc)
             sent == IF called
                     THEN Some([fasttrakId |-> Val(tok.fasttrakId),
                                refreshToken |-> decrypt(k, enc)])
                     ELSE Absent
         IN IF RefreshAccessTokenThrows(k, enc, res)
            THEN [threw |-> FALSE, token |-> ClearTokens(tok), outcome |-> "failed",
                  called |-> called, sent |-> sent]
            ELSE [threw |-> FALSE,
                  token |-> StoreTokens(tok, refreshAccessToken(k, t, enc, res)),
                  outcome |-> "refreshed", called |-> called, sent |-> sent]

\* variant: the callback works on one token object shared by all requests
RequestTokenShared(own, latest) == latest

\* the token object a jwt callback reads and mutates: the one decoded from
\* the cookie of its own request
RequestToken(own, latest) == own

jwtCallback(tok, user, k, t, res) ==
    IF Has(user) THEN JwtLogin(tok, Val(user), k, t)
    ELSE JwtRead(tok, k, t, res)

\* the session object the framework hands to the session callback
NewSession == [userId |-> Absent, roles |-> Absent,
               accessToken |-> Absent, error |-> Absent]

\* variant: an errored token yields a session without identity and roles
sessionCallbackErroredAnonymous(sess, tok, k) ==
    IF Has(tok.error)
    THEN [sess EXCEPT !.error = tok.error]
    ELSE LET s1 == [sess EXCEPT !.userId = tok.rtrUserId, !.roles = tok.roles]
         IN IF Has(tok.accessToken) /\ ~DecryptThrows(k, Val(tok.accessToken))
            THEN [s1 EXCEPT !.accessToken =
                     Some(decryptAccessToken(k, Val(tok.accessToken)))]
            ELSE s1

sessionCallback(sess, tok, k) ==
    LET s1 == [sess EXCEPT
                 !.userId = IF Has(tok.rtrUserId) THEN tok.rtrUserId ELSE Some(""),
                 !.roles = IF Has(tok.roles) THEN tok.roles ELSE Some({})]
        s2 == IF Has(tok.accessToken) /\ ~Has(tok.error)
              THEN IF DecryptThrows(k, Val(tok.accessToken))
                   THEN [s1 EXCEPT !.error = Some("TokenDecryptionError")]
                   ELSE [s1 EXCEPT !.accessToken =
                            Some(decryptAccessToken(k, Val(tok.accessToken)))]
              ELSE s1
    IN [s2 EXCEPT !.error = tok.error]

(***************************************************************************)
(* lib/auth/user-service.ts and lib/models/User.ts                         *)
(***************************************************************************)
\* the unique index on username: a document without a username collides
\* with any other document without one
UsernameTaken(dir, username) ==
    \E e \in ExternalIds : Has(dir[e]) /\ Val(dir[e]).username = username

\* findOneAndUpdate({fasttrakId}, {$setOnInsert, $set}, {upsert: true})
UpsertThrows(dir, fasttrakId, dbOk) ==
    \/ ~dbOk
    \/ ~Has(dir[fasttrakId]) /\ UsernameTaken(dir, Absent)

\* variant: createdAt is written by $set, on every call
upsertUserSetCreatedAt(dir, fasttrakId, roles, t) ==
    IF Has(dir[fasttrakId])
    THEN [dir EXCEPT ![fasttrakId] =
            Some([Val(dir[fasttrakId]) EXCEPT !.roles = roles, !.createdAt = t])]
    ELSE [dir EXCEPT ![fasttrakId] =
            Some([id |-> Cardinality({e \in ExternalIds : Has(dir[e])}) + 1,
                  username |-> Absent,
                  roles |-> roles,
                  createdAt |-> t])]

upsertUser(dir, fasttrakId, roles, t) ==
    IF Has(dir[fasttrakId])
    THEN [dir EXCEPT ![fasttrakId] =
            Some([Val(dir[fasttrakId]) EXCEPT !.roles = roles])]
    ELSE [dir EXCEPT ![fasttrakId] =
            Some([id |-> Cardinality({e \in ExternalIds : Has(dir[e])}) + 1,
                  username |-> Absent,
                  roles |-> roles,
                  createdAt |-> t])]

(***************************************************************************)
(* lib/services/user-registration-service.ts                               *)
(***************************************************************************)
\* the usernames an admin registers accounts under
Usernames == {"alice"}

\* registerUser throws when FastTrak's /register fails or RtrUser.create
\* hits the unique index on fasttrakId or on username
RegisterThrows(dir, fasttrakId, username, registered) ==
    \/ ~registered
    \/ Has(dir[fasttrakId])
    \/ UsernameTaken(dir, Some(username))

\* RtrUser.create({fasttrakId, username, roles: userData.roles, ...}) for
\* the id FastTrak gave the new account
registerUser(dir, fasttrakId, username, roles, t) ==
    [dir EXCEPT ![fasttrakId] =
        Some([id |-> Cardinality({e \in ExternalIds : Has(dir[e])}) + 1,
              username |-> Some(username),
              roles |-> roles,
              createdAt |-> t])]

(***************************************************************************)
(* lib/auth/providers.ts : fastTrakProvider.authorize                      *)
(***************************************************************************)
\* variant: authorize goes on when upsertUser throws
AuthorizeReturnsNullUpsertIgnored(dir, credentials, res, dbOk) ==
    \/ ~credentials
    \/ AuthenticateThrows(res)

\* if (!credentials) return null; try { ... } catch { return null }
AuthorizeReturnsNull(dir, credentials, res, dbOk) ==
    \/ ~credentials
    \/ AuthenticateThrows(res)
    \/ UpsertThrows(dir, authenticateFastTrak(res).id, dbOk)

authorize(dir, res, t) ==
    LET fasttrak == authenticateFastTrak(res)
        user == Val(upsertUser(dir, fasttrak.id, fasttrak.roles, t)[fasttrak.id])
    IN [id |-> user.id,
        fasttrakId |-> fasttrak.id,
        roles |-> user.roles,
        _accessToken |-> fasttrak.accessToken,
        _refreshToken |-> fasttrak.refreshToken,
        _accessTokenExpiresAt |->
            JsAdd(Num(t), JsMul(ToNumber(fasttrak.accessTokenExpirationSeconds),
                                Num(MsPerSecond))),
        _refreshTokenExpiresAt |->
            JsAdd(Num(t), JsMul(ToNumber(fasttrak.refreshTokenExpiratinSeconds),
                                Num(MsPerSecond)))]

(***************************************************************************)
(* app/api/fasttrak/[...path]/route.ts : the FastTrak proxy                *)
(***************************************************************************)
\* what the upstream fetch of a proxied request meets
Upstream == {"answered", "unreachable"}

\* handleProxyRequest on the token getToken decoded from the request (a
\* request without a session cookie decodes to no token at all): the error
\* it throws, if any, and the bearer token it sent upstream, if it sent one
handleProxyRequest(tok, k, upstream) ==
    IF ~Has(tok.accessToken)
    THEN [thrown |-> "UnauthorizedError", bearer |-> Absent]
    ELSE IF DecryptThrows(k, Val(tok.accessToken))
    THEN [thrown |-> "UnauthorizedError", bearer |-> Absent]
    ELSE LET bearer == Some(decryptAccessToken(k, Val(tok.accessToken)))
         IN IF upstream = "unreachable"
            THEN [thrown |-> "BadGatewayError", bearer |-> bearer]
            ELSE [thrown |-> "none", bearer |-> bearer]

(***************************************************************************)
(* lib/auth/admin-guard.ts                                                 *)
(***************************************************************************)
\* !session || !session.user, for the session getServerSession returned
NoSessionUser(sess) ==
    ~Has(sess) \/ (~Has(Val(sess).userId) /\ ~Has(Val(sess).roles))

\* session.user.roles || []
UserRoles(sess) == IF Has(Val(sess).roles) THEN Val(Val(sess).roles) ELSE {}

\* variant: any role at all passes the guard
requireAdminAnyRole(sess) ==
    IF NoSessionUser(sess) THEN "UnauthorizedError"
    ELSE IF UserRoles(sess) = {} THEN "ForbiddenError"
    ELSE "returned"

\* requireAdmin: "returned" (with the session) or the error it throws
requireAdmin(sess) ==
    IF NoSessionUser(sess) THEN "UnauthorizedError"
    ELSE IF "Admin" \notin UserRoles(sess) THEN "ForbiddenError"
    ELSE "returned"

\* isAdmin: the session requireAdmin returned, null when it threw
isAdmin(sess) == IF requireAdmin(sess) = "returned" THEN sess ELSE Absent

(***************************************************************************)
(* the earlier authOptions with its callbacks written inline               *)
(***************************************************************************)
\* const TOKEN_REFRESH_BUFFER_MS = 10 * 1000 of that file
INLINE_TOKEN_REFRESH_BUFFER_MS == 10 * MsPerSecond

\* variant: compares with the expiry itself, without the buffer
inlineJwtReusesNoBuffer(tok, t) ==
    /\ Has(tok.accessToken)
    /\ ~FalsyNum(tok.accessTokenExpiresAt)
    /\ JsLt(Num(t), Val(tok.accessTokenExpiresAt))

\* the inline jwt callback without a user returns the token as it is when
\* token.accessToken && token.accessTokenExpiresAt &&
\* now < token.accessTokenExpiresAt - TOKEN_REFRESH_BUFFER_MS,
\* and goes on to the refresh otherwise
inlineJwtReuses(tok, t) ==
    /\ Has(tok.accessToken)
    /\ ~FalsyNum(tok.accessTokenExpiresAt)
    /\ JsLt(Num(t), JsSub(Val(tok.accessTokenExpiresAt),
                          Num(INLINE_TOKEN_REFRESH_BUFFER_MS)))

(***************************************************************************)
(* lib/routes.ts and the routing proxy (proxy.ts)                          *)
(***************************************************************************)
\* a pathname is the sequence of its pieces: "/admin/users" is
\* <<"/", "admin", "/", "users">>; String.prototype.startsWith
startsWith(s, prefix) ==
    Len(prefix) <= Len(s) /\ SubSeq(s, 1, Len(prefix)) = prefix

PUBLIC_ROUTES ==
    {<<"/">>, <<"/", "login">>,
     <<"/", "api", "/", "auth", "/", "signin">>,
     <<"/", "api", "/", "auth", "/", "callback">>,
     <<"/", "api", "/", "auth", "/", "signout">>,
     <<"/", "api", "/", "auth", "/", "csrf">>,
     <<"/", "api", "/", "auth", "/", "providers">>,
     <<"/", "api", "/", "auth", "/", "session">>}

AUTH_ROUTES == {<<"/", "login">>, <<"/", "register">>}

PROTECTED_ROUTES ==
    {<<"/", "dashboard">>, <<"/", "profile">>, <<"/", "settings">>}

ADMIN_ROUTES ==
    {<<"/", "admin">>, <<"/", "admin", "/", "users">>,
     <<"/", "admin", "/", "settings">>}

ROUTE_REDIRECTS ==
    {<<"/", "home">>, <<"/", "signin">>, <<"/", "signout">>}

\* the entries of the record, in insertion order
ROLE_BASED_ROUTES ==
    <<[route |-> <<"/", "dashboard">>, roles |-> {}],
      [route |-> <<"/", "admin">>, roles |-> {"Admin"}],
      [route |-> <<"/", "admin", "/", "users">>, roles |-> {"Admin"}],
      [route |-> <<"/", "payment">>, roles |-> {"Payment_Admin", "Admin"}],
      [route |-> <<"/", "booking">>, roles |-> {"Booker", "Admin"}]>>

\* no route ends with '*'
isPublicRoute(pathname) ==
    \E route \in PUBLIC_ROUTES :
        pathname = route \/ startsWith(pathname, route \o <<"/">>)

isAuthRoute(pathname) == \E route \in AUTH_ROUTES : startsWith(pathname, route)

isProtectedRoute(pathname) ==
    \E route \in PROTECTED_ROUTES : startsWith(pathname, route)

isAdminRoute(pathname) == \E route \in ADMIN_ROUTES : startsWith(pathname, route)

\* the roles of the first entry the pathname starts with, or null
getRequiredRoles(pathname) ==
    LET hits == {i \in DOMAIN ROLE_BASED_ROUTES :
                    startsWith(pathname, ROLE_BASED_ROUTES[i].route)}
    IN IF hits = {} THEN Absent
       ELSE Some(ROLE_BASED_ROUTES[CHOOSE i \in hits : \A j \in hits : i <= j].roles)

hasRequiredRoles(userRoles, requiredRoles) ==
    requiredRoles = {} \/ requiredRoles \cap userRoles # {}

getRedirectConfig(pathname) == pathname \in ROUTE_REDIRECTS

\* removes one trailing slash, except from the root
normalizePath(pathname) ==
    IF pathname # <<"/">> /\ Len(pathname) > 0 /\ pathname[Len(pathname)] = "/"
    THEN SubSeq(pathname, 1, Len(pathname) - 1)
    ELSE pathname

\* proxy(request) for a pathname and the token getToken decoded (null
\* without a session cookie): "next" when the request goes on, otherwise
\* where it is redirected: a static redirect, the default page of a
\* signed-in user, the login page, or the dashboard with error forbidden or
\* unauthorized
proxy(pathname, tok) ==
    LET normalizedPath == normalizePath(pathname)
        isAuthenticated == Has(tok)
        userRoles == IF Has(tok) /\ Has(Val(tok).roles)
                     THEN Val(Val(tok).roles) ELSE {}
        isProtected == isProtectedRoute(normalizedPath)
                          \/ isAdminRoute(normalizedPath)
        requiredRoles == getRequiredRoles(normalizedPath)
    IN IF getRedirectConfig(normalizedPath) THEN "static"
       ELSE IF startsWith(pathname, <<"/", "api", "/", "auth">>) THEN "next"
       ELSE IF isPublicRoute(normalizedPath)
       THEN IF isAuthRoute(normalizedPath) /\ isAuthenticated
            THEN "default" ELSE "next"
       ELSE IF ~isAuthenticated /\ isProtected THEN "login"
       ELSE IF /\ isAuthenticated /\ isProtected
               /\ isAdminRoute(normalizedPath) /\ "Admin" \notin userRoles
       THEN "forbidden"
       ELSE IF /\ isAuthenticated /\ isProtected
               /\ Has(requiredRoles) /\ Val(requiredRoles) # {}
               /\ ~hasRequiredRoles(userRoles, Val(requiredRoles))
       THEN "unauthorized"
       ELSE "next"

(***************************************************************************)
(* lib/db.ts                                                               *)
(***************************************************************************)
Callers == 1..MaxCallers

\* const cached = global._mongo || { conn: null, promise: null }
\*   conn      the connection, once stored
\*   promise   null ("none"), or the promise of mongoose.connect: "pending",
\*             "fulfilled" or "rejected"
\*   connects  how many times mongoose.connect was called
NoConnection == [conn |-> FALSE, promise |-> "none", connects |-> 0]

\* a connectToDB call:
\*   pc      "idle", "awaiting" (at await cached.promise), "returned" or "threw"
\*   result  what it returned: "conn" or "undefined"
NotCalled == [pc |-> "idle", result |-> "none"]

\* connectToDB up to its await or its return
connectToDB(c) ==
    /\ calls[c].pc = "idle"
    /\ IF cached.conn
       THEN /\ calls' = [calls EXCEPT ![c] = [pc |-> "returned", result |-> "conn"]]
            /\ UNCHANGED cached
       ELSE IF cached.promise = "none"
       THEN /\ cached' = [cached EXCEPT !.promise = "pending",
                                        !.connects = cached.connects + 1]
            /\ calls' = [calls EXCEPT ![c].pc = "awaiting"]
       ELSE /\ calls' = [calls EXCEPT ![c] =
                            [pc |-> "returned", result |-> "undefined"]]
            /\ UNCHANGED cached
    /\ UNCHANGED <<now, KEY, users, token, session, last, reqs, box>>

\* mongoose.connect settles and the call awaiting it goes on:
\* cached.conn = await cached.promise; return cached.conn
ConnectSettles ==
    \E established \in BOOLEAN :
        /\ cached.promise = "pending"
        /\ cached' = [cached EXCEPT
                        !.promise = IF established THEN "fulfilled" ELSE "rejected",
                        !.conn = established]
        /\ calls' = [c \in Callers |->
                        IF calls[c].pc = "awaiting"
                        THEN IF established
                             THEN [pc |-> "returned", result |-> "conn"]
                             ELSE [pc |-> "threw", result |-> "none"]
                        ELSE calls[c]]
        /\ UNCHANGED <<now, KEY, users, token, session, last, reqs, box>>

(***************************************************************************)
(* The state machine                                                       *)
(***************************************************************************)
\* the record of the last request: the token and the user the jwt callback
\* was handed, the provider's payload, and what the callback did
\*   op       "signin", "read", "tick", "restart"
\*   pre      the token handed to the jwt callback
\*   user     the user handed to the jwt callback (a sign-in)
\*   auth     the provider's /authenticate payload and when authorize ran
\*   res      the provider's /refresh response, when the call was made
\*   sent     what the /refresh call presented
\*   bearer   the access token a proxy request sent upstream
\*   authRes  the provider's /authenticate response of a sign-in that went
\*            through, and of a refused one when its body had comment lines
\*   stage    how far authorize got: "credentials", "authenticate" or
\*            "upsert" when it returned null there, "done" when it returned
\*            a user
\*   path     the pathname of a page request, and in outcome what the
\*            routing proxy did with it
\*   guard    what requireAdmin did: "returned" or the error it threw
\*   admin    what isAdmin returned: the session, or null
NoOp == [op |-> "none", pre |-> EmptyToken, user |-> Absent, auth |-> Absent,
         authAt |-> 0, res |-> Absent, threw |-> FALSE, called |-> FALSE,
         outcome |-> "none", sent |-> Absent, bearer |-> Absent,
         authRes |-> Absent, stage |-> "none", path |-> <<>>,
         guard |-> "none", admin |-> Absent]

\* no text has been through encrypt yet
\*   op    "encrypt" or "decrypt"
\*   text  the string handed to encrypt
\*   blob  the base64 string encrypt returned
\*   out   what decrypt returned for that blob, unless it threw
NoText == [op |-> "none", text |-> <<>>, blob |-> <<>>, out |-> Absent,
           threw |-> FALSE]

\* the requests of one client that may be in flight at once
Requests == {"A", "B"}

\* a jwt callback invocation of a session read, split at its one await (the
\* fetch of refreshFastTrakToken):
\*   pc      "idle", "awaiting" (the fetch is out) or "done"
\*   pre     the token decoded from the request's cookie
\*   began   Date.now() of shouldRefreshToken
\*   sent    what the fetch presented, when it went out
\*   res     the provider's response, once it arrived
\*   result  the token the callback returned
Idle == [pc |-> "idle", pre |-> EmptyToken, began |-> 0, sent |-> Absent,
         res |-> Absent, result |-> EmptyToken]

Init ==
    /\ now = 0
    /\ KEY = 1
    /\ users = [e \in ExternalIds |-> Absent]
    /\ token = EmptyToken
    /\ session = Absent
    /\ last = NoOp
    /\ reqs = [r \in Requests |-> Idle]
    /\ box = NoText
    /\ cached = NoConnection
    /\ calls = [c \in Callers |-> NotCalled]

\* time passes between requests
Tick ==
    \E t \in Instants :
        /\ t > now
        /\ now' = t
        /\ last' = [NoOp EXCEPT !.op = "tick"]
        /\ session' = Absent
        /\ UNCHANGED <<KEY, users, token, reqs, box, cached, calls>>

\* what one authorize call meets: credentials or none, the provider's
\* answer, the database up or down (one representative of each way to fail)
AuthorizeInputs ==
    LET okRes == CHOOSE r \in AuthResponses : r.transport = "ok"
    IN [credentials : {TRUE}, res : AuthResponses, dbOk : {TRUE}]
       \cup {[credentials |-> FALSE, res |-> okRes, dbOk |-> TRUE],
             [credentials |-> TRUE, res |-> okRes, dbOk |-> FALSE]}

\* a sign-in makes no provider call from the jwt callback
NoResponse == CHOOSE r \in RefreshResponses : r.transport = "unreachable"

\* a sign-in: authorize at time now, then the jwt callback with the user it
\* returned, at time t, on the previous token or on a new one
SignIn ==
    \E in \in AuthorizeInputs, t \in Instants, base \in {token, EmptyToken} :
        /\ now <= t /\ t <= now + MaxSignInMs
        /\ session' = Absent
        /\ UNCHANGED <<KEY, reqs, box, cached, calls>>
        /\ IF AuthorizeReturnsNull(users, in.credentials, in.res, in.dbOk)
           THEN /\ t = now
                /\ base = token
                /\ last' = [NoOp EXCEPT
                              !.op = "signin", !.outcome = "null",
                              !.stage = IF ~in.credentials THEN "credentials"
                                        ELSE IF AuthenticateThrows(in.res)
                                        THEN "authenticate" ELSE "upsert",
                              !.authRes = IF in.credentials /\ in.res.comments > 0
                                          THEN Some(in.res) ELSE Absent]
                /\ UNCHANGED <<now, users, token>>
           ELSE LET user == authorize(users, in.res, now)
                    r == jwtCallback(base, Some(user), KEY, t, NoResponse)
                IN /\ users' = upsertUser(users, in.res.json.id, in.res.json.roles, now)
                   /\ now' = t
                   /\ token' = IF r.threw THEN token ELSE r.token
                   /\ last' = [NoOp EXCEPT
                                 !.op = "signin", !.pre = base, !.user = Some(user),
                                 !.auth = Some(in.res.json), !.authAt = now,
                                 !.authRes = Some(in.res), !.stage = "done",
                                 !.threw = r.threw, !.called = r.called,
                                 !.outcome = r.outcome, !.sent = r.sent]

\* a session read: the jwt callback without a user, then the session callback
SessionRead ==
    \E res \in RefreshResponses :
        /\ token # EmptyToken
        /\ LET r == jwtCallback(token, Absent, KEY, now, res)
           IN /\ token' = r.token
              /\ session' = Some(sessionCallback(NewSession, r.token, KEY))
              /\ last' = [NoOp EXCEPT
                            !.op = "read", !.pre = token,
                            !.res = IF r.called THEN Some(res) ELSE Absent,
                            !.threw = r.threw, !.called = r.called,
                            !.outcome = r.outcome, !.sent = r.sent]
        /\ UNCHANGED <<now, KEY, users, reqs, box, cached, calls>>

\* the process is restarted with the next TOKEN_ENCRYPTION_KEY
Restart ==
    /\ KEY < MaxKey
    /\ KEY' = KEY + 1
    /\ last' = [NoOp EXCEPT !.op = "restart"]
    /\ session' = Absent
    /\ UNCHANGED <<now, users, token, reqs, box, cached, calls>>

\* the jwt callback of request r up to its await: it returns at once when
\* the token is reused or the refresh fails before the fetch
Begin(r) ==
    /\ token # EmptyToken
    /\ reqs[r].pc = "idle"
    /\ LET first == JwtRead(token, KEY, now, NoResponse)
       IN reqs' = [reqs EXCEPT ![r] =
                     IF first.called
                     THEN [Idle EXCEPT !.pc = "awaiting", !.pre = token,
                                       !.began = now, !.sent = first.sent]
                     ELSE [Idle EXCEPT !.pc = "done", !.pre = token,
                                       !.began = now, !.result = first.token]]
    /\ last' = [NoOp EXCEPT !.op = "begin"]
    /\ session' = Absent
    /\ UNCHANGED <<now, KEY, users, token, box, cached, calls>>

\* the rest of the jwt callback of request r once the provider has answered;
\* the client keeps the token of the response that arrived last
Respond(r) ==
    \E res \in RefreshResponses :
        /\ reqs[r].pc = "awaiting"
        /\ LET own == RequestToken(reqs[r].pre, token)
               done == JwtRead(own, KEY, now, res)
           IN /\ reqs' = [reqs EXCEPT ![r].pc = "done", ![r].res = Some(res),
                                      ![r].result = done.token]
              /\ token' = done.token
        /\ last' = [NoOp EXCEPT !.op = "respond"]
        /\ session' = Absent
        /\ UNCHANGED <<now, KEY, users, box, cached, calls>>

\* a request to /api/fasttrak/... carrying the client's session token
ProxyRequest ==
    \E upstream \in Upstream :
        LET r == handleProxyRequest(token, KEY, upstream)
        IN /\ last' = [NoOp EXCEPT !.op = "proxy", !.pre = token,
                                   !.outcome = r.thrown, !.bearer = r.bearer]
           /\ session' = Absent
           /\ UNCHANGED <<now, KEY, users, token, reqs, box, cached, calls>>

\* a request to an admin route: getServerSession (the jwt and session
\* callbacks when the request carries a session token, null otherwise), then
\* the guard
AdminRequest ==
    \E res \in RefreshResponses :
        /\ IF token = EmptyToken
           THEN /\ session' = Absent
                /\ last' = [NoOp EXCEPT !.op = "admin",
                                        !.guard = requireAdmin(Absent),
                                        !.admin = isAdmin(Absent)]
                /\ UNCHANGED token
           ELSE LET r == jwtCallback(token, Absent, KEY, now, res)
                    sess == Some(sessionCallback(NewSession, r.token, KEY))
                IN /\ token' = r.token
                   /\ session' = sess
                   /\ last' = [NoOp EXCEPT
                                 !.op = "admin", !.pre = token,
                                 !.res = IF r.called THEN Some(res) ELSE Absent,
                                 !.threw = r.threw, !.called = r.called,
                                 !.outcome = r.outcome, !.sent = r.sent,
                                 !.guard = requireAdmin(sess),
                                 !.admin = isAdmin(sess)]
        /\ UNCHANGED <<now, KEY, users, reqs, box, cached, calls>>

\* encrypt(text) for some text and some random iv
Encrypt ==
    \E text \in Strings, iv \in Ivs :
        /\ box' = [NoText EXCEPT !.op = "encrypt", !.text = text,
                                 !.blob = encryptBlob(KEY, iv, text)]
        /\ UNCHANGED <<now, KEY, users, token, session, last, reqs, cached, calls>>

\* decrypt(data) for the blob encrypt returned last
Decrypt ==
    /\ box.op = "encrypt"
    /\ box' = [box EXCEPT
                 !.op = "decrypt",
                 !.threw = DecryptBlobThrows(KEY, box.blob),
                 !.out = IF DecryptBlobThrows(KEY, box.blob) THEN Absent
                         ELSE Some(decryptBlob(KEY, box.blob))]
    /\ UNCHANGED <<now, KEY, users, token, session, last, reqs, cached, calls>>

\* POST /api/admin/users by a signed-in admin: registerUser for the account
\* FastTrak created (or failed to create) under the id fasttrakId
RegisterUser ==
    \E fasttrakId \in ExternalIds, username \in Usernames,
       roles \in RoleSets, registered \in BOOLEAN :
        /\ Has(token.roles) /\ "Admin" \in Val(token.roles)
        /\ IF RegisterThrows(users, fasttrakId, username, registered)
           THEN /\ last' = [NoOp EXCEPT !.op = "register", !.threw = TRUE]
                /\ UNCHANGED users
           ELSE /\ last' = [NoOp EXCEPT !.op = "register"]
                /\ users' = registerUser(users, fasttrakId, username, roles, now)
        /\ session' = Absent
        /\ UNCHANGED <<now, KEY, token, reqs, box, cached, calls>>

\* the pathnames page requests arrive with
Pathnames ==
    {<<"/">>, <<"/", "login">>, <<"/", "home">>, <<"/", "about">>,
     <<"/", "dashboard">>, <<"/", "profile">>,
     <<"/", "admin">>, <<"/", "admin", "/", "users">>,
     <<"/", "admin", "/", "users", "/">>,
     <<"/", "payment">>, <<"/", "payment", "/", "refunds">>,
     <<"/", "booking">>, <<"/", "api", "/", "auth", "/", "session">>}

\* a page request through the routing proxy, with or without a session cookie
RouteRequest ==
    \E pathname \in Pathnames :
        /\ last' = [NoOp EXCEPT
                      !.op = "route", !.pre = token, !.path = pathname,
                      !.outcome = proxy(pathname,
                                        IF token = EmptyToken THEN Absent
                                        ELSE Some(token))]
        /\ session' = Absent
        /\ UNCHANGED <<now, KEY, users, token, reqs, box, cached, calls>>

Next == Tick \/ SignIn \/ SessionRead
Spec == Init /\ [][Next]_vars

NextKey == Tick \/ SignIn \/ SessionRead \/ Restart
SpecKey == Init /\ [][NextKey]_vars

\* one client: it signs in once, then sends its session reads
FirstSignIn == token = EmptyToken /\ SignIn

NextProxy == Tick \/ SignIn \/ SessionRead \/ ProxyRequest
SpecProxy == Init /\ [][NextProxy]_vars

NextAdmin == Tick \/ SignIn \/ AdminRequest
SpecAdmin == Init /\ [][NextAdmin]_vars

NextCrypto == Encrypt \/ Decrypt
SpecCrypto == Init /\ [][NextCrypto]_vars

NextRegister == Tick \/ SignIn \/ RegisterUser
SpecRegister == Init /\ [][NextRegister]_vars

NextRoute == FirstSignIn \/ RouteRequest
SpecRoute == Init /\ [][NextRoute]_vars

NextDb == (\E c \in Callers : connectToDB(c)) \/ ConnectSettles
SpecDb == Init /\ [][NextDb]_vars

NextRace == Tick \/ FirstSignIn \/ (\E r \in Requests : Begin(r) \/ Respond(r))
SpecRace == Init /\ [][NextRace]_vars

(***************************************************************************)
(* Properties                                                              *)
(***************************************************************************)
\* the last request was a session read / a sign-in that reached the jwt callback
WasRead == last.op = "read"
WasLogin == last.op = "signin" /\ Has(last.user)

\* a finite number stored in an optional field
IsNum(o) == Has(o) /\ ~Val(o).nan

\* the causes for which a refresh attempt fails, read off the token the
\* callback was handed and the response the provider gave
CauseMissing == ~Has(last.pre.refreshToken) \/ ~Has(last.pre.fasttrakId)
CauseDecrypt == ~CauseMissing /\ DecryptThrows(KEY, Val(last.pre.refreshToken))
CauseProvider ==
    /\ Has(last.res)
    /\ \/ Val(last.res).transport \in {"unreachable", "non2xx", "badjson"}
       \/ Val(last.res).comments > 0
       \/ ~Has(Val(last.res).json.accessToken)
RefreshAttempted ==
    /\ WasRead
    /\ \/ ~Has(last.pre.accessToken)
       \/ ~IsNum(last.pre.accessTokenExpiresAt)
       \/ Val(last.pre.accessTokenExpiresAt).v = 0
       \/ now >= Val(last.pre.accessTokenExpiresAt).v - TOKEN_REFRESH_BUFFER_MS
RefreshFailed == RefreshAttempted /\ (CauseMissing \/ CauseDecrypt \/ CauseProvider)
RefreshSucceeded == RefreshAttempted /\ ~(CauseMissing \/ CauseDecrypt \/ CauseProvider)

\* the plaintext a stored ciphertext field carries
Plain(o) == Val(o).pt
Decryptable(o) == Has(o) /\ ~DecryptThrows(KEY, Val(o))

\* C1: a session read on a token holding an access token, a refresh token, a
\* fasttrakId and a numeric expiry calls the provider's refresh endpoint if
\* and only if now >= accessTokenExpiresAt - TOKEN_REFRESH_BUFFER_MS; one
\* millisecond inside the buffer it does, one millisecond outside it does not.
C1_Precondition ==
    /\ WasRead
    /\ Has(last.pre.accessToken)
    /\ Has(last.pre.refreshToken)
    /\ Has(last.pre.fasttrakId)
    /\ IsNum(last.pre.accessTokenExpiresAt)
C1_RefreshIffWithinBuffer ==
    C1_Precondition =>
        LET exp == Val(last.pre.accessTokenExpiresAt).v
        IN /\ last.called <=> now >= exp - TOKEN_REFRESH_BUFFER_MS
           /\ exp = now + TOKEN_REFRESH_BUFFER_MS - 1 => last.called
           /\ exp = now + TOKEN_REFRESH_BUFFER_MS + 1 => ~last.called
C1_Witness ==
    /\ C1_Precondition
    /\ Val(last.pre.accessTokenExpiresAt).v = now + TOKEN_REFRESH_BUFFER_MS - 1
    /\ last.called

\* C2: whenever a refresh exchange succeeds, the returned token has all four
\* token fields replaced by values of that one provider response, and its
\* error field is unset, also when the token carried an error before.
C2_SuccessReplacesAllAndClearsError ==
    (WasRead /\ last.outcome = "refreshed") =>
        LET json == Val(last.res).json
        IN /\ Has(token.accessToken) /\ Plain(token.accessToken) = Val(json.accessToken)
           /\ Has(token.refreshToken)
           /\ Plain(token.refreshToken) \in
                 {Val(last.sent).refreshToken} \cup
                 {Val(o) : o \in {json.refreshToken} \ {Absent}}
           /\ token.accessTokenExpiresAt =
                 Some(JsAdd(Num(now), JsMul(ToNumber(json.accessTokenExpirationSeconds),
                                            Num(MsPerSecond))))
           /\ token.refreshTokenExpiresAt =
                 Some(JsAdd(Num(now), JsMul(ToNumber(json.refreshTokenExpirationSeconds),
                                            Num(MsPerSecond))))
           /\ ~Has(token.error)

\* C3: whenever a refresh attempt fails, whatever the cause (refresh token or
\* fasttrakId missing, stored refresh token not decryptable, provider
\* unreachable, non-2xx, unparseable body), the returned token has all four
\* token fields absent and error = 'RefreshAccessTokenError'.
C3_FailureClearsAllAndSetsError ==
    RefreshFailed =>
        /\ \A f \in TokenFields : ~Has(token[f])
        /\ token.error = Some("RefreshAccessTokenError")
C3_Witness ==
    /\ RefreshFailed
    /\ CauseDecrypt
    /\ \A f \in TokenFields : Has(last.pre[f])
    /\ \A f \in TokenFields : ~Has(token[f])

\* C4: when sessionCallback receives a token with no error whose accessToken
\* fails to decrypt, the session has error = 'TokenDecryptionError' and no
\* accessToken.
C4_DecryptFailureSurfacesSentinel ==
    (WasRead /\ ~Has(token.error) /\ Has(token.accessToken)
             /\ DecryptThrows(KEY, Val(token.accessToken))) =>
        /\ Has(session)
        /\ Val(session).error = Some("TokenDecryptionError")
        /\ ~Has(Val(session).accessToken)

\* C5: jwtCallback never throws, whatever token and user it is handed.
C5_JwtCallbackNeverThrows ==
    last.op \in {"signin", "read"} => ~last.threw

\* C6: a session read on a token whose error is set makes no provider call
\* and returns a token that is still errored; only a sign-in leaves the
\* errored state.
C6_ErroredReadMakesNoCall ==
    /\ (WasRead /\ Has(last.pre.error)) => (~last.called /\ Has(token.error))
    /\ (Has(last.pre.error) /\ ~Has(token.error)) => WasLogin

\* C7: a sign-in authorized at time T with accessTokenExpirationSeconds = S
\* stores accessTokenExpiresAt = T + 1000 * S, however long the jwt callback
\* runs after authorize.
C7_LoginExpiryExact ==
    (WasLogin /\ ~last.threw /\ Has(Val(last.auth).accessTokenExpirationSeconds)) =>
        token.accessTokenExpiresAt =
            Some(Num(last.authAt + MsPerSecond * Val(Val(last.auth).accessTokenExpirationSeconds)))

\* C8: jwtCallback with a user always overwrites rtrUserId, fasttrakId, roles
\* and the four token fields with values of that user and makes no provider
\* call, whatever the token it was handed.
C8_LoginOverwritesEverything ==
    WasLogin =>
        LET user == Val(last.user)
        IN /\ ~last.called
           /\ token.rtrUserId = Some(user.id)
           /\ token.fasttrakId = Some(user.fasttrakId)
           /\ token.roles = Some(user.roles)
           /\ Has(token.accessToken) /\ Some(Plain(token.accessToken)) = user._accessToken
           /\ Has(token.refreshToken) /\ Some(Plain(token.refreshToken)) = user._refreshToken
           /\ token.accessTokenExpiresAt =
                 Some(JsAdd(Num(now), JsMul(JsFloorDiv(JsSub(user._accessTokenExpiresAt,
                                                             Num(now)), MsPerSecond),
                                            Num(MsPerSecond))))
           /\ token.refreshTokenExpiresAt =
                 Some(JsAdd(Num(now), JsMul(JsFloorDiv(JsSub(user._refreshTokenExpiresAt,
                                                             Num(now)), MsPerSecond),
                                            Num(MsPerSecond))))

\* C9: after a successful refresh the stored refresh token decrypts to the
\* one the response carried, and to the previously stored one when the
\* response carried none.
C9_RefreshTokenRetainedOrRotated ==
    RefreshSucceeded =>
        LET json == Val(last.res).json
        IN /\ Decryptable(token.refreshToken)
           /\ Has(json.refreshToken) =>
                 decrypt(KEY, Val(token.refreshToken)) = Val(json.refreshToken)
           /\ ~Has(json.refreshToken) =>
                 decrypt(KEY, Val(token.refreshToken)) = Plain(last.pre.refreshToken)
C9_Witness ==
    /\ RefreshSucceeded
    /\ ~Has(Val(last.res).json.refreshToken)
    /\ Plain(token.refreshToken) = "r1"
    /\ Plain(token.accessToken) = "a2"

\* C10: every session token produced from a sign-in on, by sign-ins and
\* session reads, has an accessToken that decrypts under the deployment key
\* or has its error set.
C10_AccessTokenOrError ==
    token # EmptyToken => (Decryptable(token.accessToken) \/ Has(token.error))
C10_Witness ==
    /\ RefreshFailed
    /\ ~Has(token.accessToken)
    /\ Has(token.error)

\* the expiry a sign-in stores for a lifetime of secs seconds announced by
\* the provider: authorize adds it to its clock, the jwt callback floors what
\* is left of it to seconds and adds that to its own clock
LoginExpiry(secs) ==
    LET authorized == JsAdd(Num(last.authAt), JsMul(ToNumber(secs), Num(MsPerSecond)))
    IN JsAdd(Num(now), JsMul(JsFloorDiv(JsSub(authorized, Num(now)), MsPerSecond),
                             Num(MsPerSecond)))
\* the expiry a refresh stores for a lifetime of secs seconds
RefreshExpiry(secs) == JsAdd(Num(now), JsMul(ToNumber(secs), Num(MsPerSecond)))

\* C11: in every reachable token state the four token fields are all present
\* or all absent; when present, both ciphertexts and both expiries stem from
\* one provider response: the sign-in's, or a refresh response together with
\* the previously stored refresh token when that one is retained.
C11_AllOrNone ==
    \/ \A f \in TokenFields : Has(token[f])
    \/ \A f \in TokenFields : ~Has(token[f])
C11_FromLogin ==
    (WasLogin /\ ~last.threw) =>
        LET json == Val(last.auth)
        IN /\ \A f \in TokenFields : Has(token[f])
           /\ Plain(token.accessToken) = Val(json.accessToken)
           /\ Plain(token.refreshToken) = Val(json.refreshToken)
           /\ Val(token.accessTokenExpiresAt) =
                 LoginExpiry(json.accessTokenExpirationSeconds)
           /\ Val(token.refreshTokenExpiresAt) =
                 LoginExpiry(json.refreshTokenExpiratinSeconds)
C11_FromRefresh ==
    (WasRead /\ last.outcome = "refreshed") =>
        LET json == Val(last.res).json
        IN /\ \A f \in TokenFields : Has(token[f])
           /\ Plain(token.accessToken) = Val(json.accessToken)
           /\ Plain(token.refreshToken) =
                 IF Has(json.refreshToken) THEN Val(json.refreshToken)
                 ELSE Plain(last.pre.refreshToken)
           /\ Val(token.accessTokenExpiresAt) =
                 RefreshExpiry(json.accessTokenExpirationSeconds)
           /\ Val(token.refreshTokenExpiresAt) =
                 RefreshExpiry(json.refreshTokenExpirationSeconds)
\* a token that was neither stored nor cleared by the last request is the
\* token that request was handed
C11_ElseUntouched ==
    (WasRead /\ last.outcome = "reused") => token = last.pre
C11_FieldsTogether ==
    /\ C11_AllOrNone
    /\ C11_FromLogin
    /\ C11_FromRefresh
    /\ C11_ElseUntouched
C11_Witness ==
    /\ WasRead /\ last.outcome = "refreshed"
    /\ \A f \in TokenFields : Has(last.pre[f]) /\ Has(token[f])
    /\ Plain(last.pre.accessToken) = "a1" /\ Plain(last.pre.refreshToken) = "r1"
    /\ Plain(token.accessToken) = "a2" /\ Plain(token.refreshToken) = "r2"

\* C12: a session read on a fresh token (accessToken present and
\* now < accessTokenExpiresAt - TOKEN_REFRESH_BUFFER_MS) makes no provider
\* call and returns the token with every field unchanged.
C12_Fresh ==
    /\ WasRead
    /\ Has(last.pre.accessToken)
    /\ IsNum(last.pre.accessTokenExpiresAt)
    /\ now < Val(last.pre.accessTokenExpiresAt).v - TOKEN_REFRESH_BUFFER_MS
C12_FreshReadIsNoOp ==
    C12_Fresh => (~last.called /\ ~Has(last.res) /\ token = last.pre)
C12_Witness ==
    /\ C12_Fresh
    /\ Val(last.pre.accessTokenExpiresAt).v = now + TOKEN_REFRESH_BUFFER_MS + 1
    /\ token = last.pre
    /\ Has(session)

\* the spec's Expiring state at time t: no error, a refresh token and a
\* fasttrakId to refresh with, and the access token missing, without a
\* usable expiry or within the buffer of it
RaceExpiring(tok, t) ==
    /\ ~Has(tok.error)
    /\ Has(tok.refreshToken) /\ Has(tok.fasttrakId)
    /\ \/ ~Has(tok.accessToken)
       \/ ~IsNum(tok.accessTokenExpiresAt)
       \/ Val(tok.accessTokenExpiresAt).v = 0
       \/ t >= Val(tok.accessTokenExpiresAt).v - TOKEN_REFRESH_BUFFER_MS
\* a provider response the refresh client accepts
ExchangeOk(res) ==
    /\ Has(res)
    /\ Val(res).transport = "ok" /\ Val(res).comments = 0
    /\ Has(Val(res).json.accessToken)
\* requests r and q are in flight together on one expiring token
RaceTogether(r, q) ==
    /\ r # q
    /\ reqs[r].pc # "idle" /\ reqs[q].pc # "idle"
    /\ reqs[r].pre = reqs[q].pre
    /\ RaceExpiring(reqs[r].pre, reqs[r].began)
    /\ RaceExpiring(reqs[q].pre, reqs[q].began)
\* the token request r returned is made of r's own exchange
RaceOwnExchange(r) ==
    LET json == Val(reqs[r].res).json
        pre == reqs[r].pre
        out == reqs[r].result
    IN /\ \A f \in TokenFields : Has(out[f])
       /\ ~Has(out.error)
       /\ Plain(out.accessToken) = Val(json.accessToken)
       /\ Plain(out.refreshToken) =
             IF Has(json.refreshToken) THEN Val(json.refreshToken)
             ELSE Plain(pre.refreshToken)
       /\ \E t \in Instants :
             /\ t >= reqs[r].began
             /\ Val(out.accessTokenExpiresAt) =
                   JsAdd(Num(t), JsMul(ToNumber(json.accessTokenExpirationSeconds),
                                       Num(MsPerSecond)))
             /\ Val(out.refreshTokenExpiresAt) =
                   JsAdd(Num(t), JsMul(ToNumber(json.refreshTokenExpirationSeconds),
                                       Num(MsPerSecond)))
       /\ out.rtrUserId = pre.rtrUserId
       /\ out.fasttrakId = pre.fasttrakId
       /\ out.roles = pre.roles

\* C13: two requests of one client in flight together on the same expiring
\* token each make their own provider refresh call, and the token each one
\* returns after its exchange succeeded holds all four fields from that
\* request's own exchange and no error, never a field of the other exchange.
C13_RaceIsNeutral ==
    \A r, q \in Requests :
        RaceTogether(r, q) =>
            /\ reqs[r].sent = Some([fasttrakId |-> Val(reqs[r].pre.fasttrakId),
                                    refreshToken |-> Plain(reqs[r].pre.refreshToken)])
            /\ (reqs[r].pc = "done" /\ ExchangeOk(reqs[r].res)) => RaceOwnExchange(r)
C13_Witness ==
    /\ RaceTogether("A", "B")
    /\ reqs["A"].pc = "done" /\ reqs["B"].pc = "done"
    /\ ExchangeOk(reqs["A"].res) /\ ExchangeOk(reqs["B"].res)
    /\ Plain(reqs["A"].result.refreshToken) = "r2"
    /\ Plain(reqs["B"].result.refreshToken) = "r1"
    /\ token = reqs["B"].result

\* C14: for every token whose error is set, a token-bearing operation
\* fails: a proxy request carrying it is rejected with UnauthorizedError and
\* sends nothing upstream, and sessionCallback exposes no accessToken.
C14_ErroredTokenBearsNothing ==
    /\ (last.op = "proxy" /\ Has(last.pre.error)) =>
          (last.outcome = "UnauthorizedError" /\ ~Has(last.bearer))
    /\ (WasRead /\ Has(token.error)) => ~Has(Val(session).accessToken)

\* the tokens the provider issues, and the blobs encrypt makes of them
\* (key 0 is no key: a value stored as it was issued)
ProviderTokens == {"a1", "r1", "a2", "r2"}
Sealed == {encrypt(k, Some(p)) : k \in 1..MaxKey, p \in ProviderTokens}

\* C15: in every token state the jwt callback produces, accessToken and
\* refreshToken hold outputs of encrypt, never a provider token as issued;
\* the plaintext appears only in the provider refresh call, in the proxy's
\* Authorization header and in the materialized session.
C15_TokensEncryptedAtRest ==
    /\ Has(token.accessToken) => Val(token.accessToken) \in Sealed
    /\ Has(token.refreshToken) => Val(token.refreshToken) \in Sealed
    /\ Has(token.fasttrakId) => Val(token.fasttrakId) \notin ProviderTokens
    /\ Has(token.error) => Val(token.error) \notin ProviderTokens
    /\ Has(last.sent) => Val(last.sent).refreshToken \in ProviderTokens
    /\ Has(last.bearer) => Val(last.bearer) \in ProviderTokens
    /\ (Has(session) /\ Has(Val(session).accessToken)) =>
          Val(Val(session).accessToken) \in ProviderTokens
C15_Witness ==
    /\ WasRead /\ last.outcome = "refreshed"
    /\ Val(last.sent).refreshToken = "r1"
    /\ token.accessToken = Some(encrypt(KEY, Some("a2")))
    /\ token.refreshToken = Some(encrypt(KEY, Some("r2")))
    /\ Val(session).accessToken = Some("a2")

\* a 2xx response whose body is //-comment lines followed by a valid payload
CommentedOk(res) ==
    /\ Has(res)
    /\ Val(res).transport = "ok" /\ Val(res).comments > 0
    /\ Has(Val(res).json.accessToken)

\* C16: for authenticate and for refresh alike, a 2xx response whose body
\* is leading //-comment lines followed by a valid JSON payload is parsed and
\* yields the payload's fields: a comment prefix alone never makes a login
\* or a refresh fail.
C16_CommentPrefixTolerated ==
    /\ (last.op = "signin" /\ CommentedOk(last.authRes)) =>
          /\ ~AuthenticateThrows(Val(last.authRes))
          /\ last.outcome # "null" => last.auth = Some(Val(last.authRes).json)
    /\ (WasRead /\ CommentedOk(last.res)) =>
          /\ ~RefreshThrows(Val(last.res))
          /\ last.outcome = "refreshed"
          /\ Plain(token.accessToken) = Val(Val(last.res).json.accessToken)

\* C17: requireAdmin returns the session if and only if a session with a
\* user exists and 'Admin' is a member of its roles; without a session it
\* throws UnauthorizedError, with roles lacking 'Admin' ForbiddenError; no
\* other role implies Admin, and isAdmin returns null exactly when
\* requireAdmin throws.
C17_AdminGuard ==
    last.op = "admin" =>
        /\ last.guard = "returned" <=>
              (Has(session) /\ "Admin" \in Val(Val(session).roles))
        /\ ~Has(session) => last.guard = "UnauthorizedError"
        /\ (Has(session) /\ "Admin" \notin Val(Val(session).roles)) =>
              last.guard = "ForbiddenError"
        /\ last.guard = "returned" => last.admin = session
        /\ ~Has(last.admin) <=> last.guard \in {"UnauthorizedError", "ForbiddenError"}
C17_Witness ==
    /\ last.op = "admin"
    /\ last.guard = "ForbiddenError"
    /\ Val(session).roles = Some({"Viewer"})
    /\ ~Has(last.admin)

\* C18: upsertUser is idempotent on the fasttrakId: whatever the number of
\* calls for one fasttrakId, the directory keeps one record for it with the
\* local id and createdAt of the first call, and with the roles of the
\* latest call.
C18_RecordsKept ==
    \A e \in ExternalIds :
        Has(users[e]) =>
            /\ Has(users'[e])
            /\ Val(users'[e]).id = Val(users[e]).id
            /\ Val(users'[e]).createdAt = Val(users[e]).createdAt
C18_LatestRoles ==
    (last'.op = "signin" /\ Has(last'.user)) =>
        LET e == Val(last'.user).fasttrakId
        IN /\ Has(users'[e])
           /\ Val(users'[e]).roles = Val(last'.auth).roles
           /\ \A o \in ExternalIds \ {e} : users'[o] = users[o]
           /\ \A o \in ExternalIds \ {e} :
                 Has(users'[o]) => Val(users'[o]).id # Val(users'[e]).id
C18_UpsertIdempotent == [][C18_RecordsKept /\ C18_LatestRoles]_vars
C18_Witness ==
    /\ WasLogin
    /\ Has(users[Val(last.user).fasttrakId])
    /\ Val(users[Val(last.user).fasttrakId]).createdAt < last.authAt
    /\ Val(users[Val(last.user).fasttrakId]).roles = {"Admin"}
    /\ last.pre.roles = Some({"Viewer"})

\* a string of whole characters: every surrogate is half of a pair
WellFormed(s) ==
    \A i \in 1..Len(s) :
        /\ IsHighSurrogate(s[i]) => (i < Len(s) /\ IsLowSurrogate(s[i + 1]))
        /\ IsLowSurrogate(s[i]) => (i > 1 /\ IsHighSurrogate(s[i - 1]))

\* C19: for every plaintext string p, decrypt(encrypt(p)) = p under the one
\* deployment key, the empty string included.
C19_RoundTrip ==
    box.op = "decrypt" => (~box.threw /\ box.out = Some(box.text))
\* C19 as amended: for every plaintext string p of whole characters (no
\* surrogate without its other half), decrypt(encrypt(p)) = p under the one
\* deployment key, the empty string included.
C19_RoundTripWellFormed ==
    (box.op = "decrypt" /\ WellFormed(box.text)) =>
        (~box.threw /\ box.out = Some(box.text))
C19_Witness ==
    /\ box.op = "decrypt"
    /\ box.text = <<>>
    /\ Len(box.blob) = 40
    /\ box.out = Some(<<>>)

\* a record the admin-registration path created (it carries a username) and
\* a record a login created
AdminCreated(rec) == Has(rec) /\ Has(Val(rec).username)
LoginCreated(rec) == Has(rec) /\ ~Has(Val(rec).username)

\* C20: for a record created by registerUser with admin-assigned roles, a
\* later successful login of that user leaves the record's roles as the admin
\* assigned them; only records created by a login have their roles
\* overwritten from the provider's role claim.
C20_LoginKeepsAdminRoles ==
    \A e \in ExternalIds :
        (last'.op = "signin" /\ Has(last'.user) /\ Val(last'.user).fasttrakId = e) =>
            /\ AdminCreated(users[e]) =>
                  (AdminCreated(users'[e]) /\ Val(users'[e]).roles = Val(users[e]).roles)
            /\ LoginCreated(users[e]) =>
                  Val(users'[e]).roles = Val(last'.auth).roles
C20_AdminRolesAreAuthoritative == [][C20_LoginKeepsAdminRoles]_vars

\* C21: every request that uses the stored access token passes the expiry
\* check first: the proxy never sends upstream an access token for which
\* now >= accessTokenExpiresAt - TOKEN_REFRESH_BUFFER_MS without a refresh
\* having been attempted in that request.
C21_ProxyChecksExpiry ==
    (last.op = "proxy" /\ Has(last.bearer)) =>
        \/ last.called
        \/ /\ IsNum(last.pre.accessTokenExpiresAt)
           /\ now < Val(last.pre.accessTokenExpiresAt).v - TOKEN_REFRESH_BUFFER_MS

\* C22: re-authentication recovers an errored session: after the jwt
\* callback ran with a user on a token whose error was
\* RefreshAccessTokenError, the token's error is unset and the session
\* callback returns the decrypted access token and no error.
C22_LoginClearsError ==
    (WasLogin /\ ~last.threw /\ last.pre.error = Some("RefreshAccessTokenError")) =>
        /\ ~Has(token.error)
        /\ Has(sessionCallback(NewSession, token, KEY).accessToken)
        /\ ~Has(sessionCallback(NewSession, token, KEY).error)

\* C23: a login mints a session token only after the provider's
\* authenticate call succeeded and, after it, the directory upsert
\* succeeded, on the id and roles the provider returned; when credentials
\* are absent, authentication fails or the upsert fails, authorize returns
\* null, nothing is thrown, and neither a token nor a record is created.
C23_Minted ==
    LET res == Val(last'.authRes)
        fasttrak == authenticateFastTrak(res)
        user == Val(last'.user)
    IN /\ Has(last'.authRes) /\ Has(last'.user)
       /\ ~AuthenticateThrows(res)
       /\ ~UpsertThrows(users, fasttrak.id, TRUE)
       /\ users' = upsertUser(users, fasttrak.id, fasttrak.roles, now)
       /\ user.id = Val(users'[fasttrak.id]).id
       /\ user.fasttrakId = fasttrak.id
       /\ user.roles = Val(users'[fasttrak.id]).roles

C23_Refused ==
    /\ last'.stage \in {"credentials", "authenticate", "upsert"}
    /\ last'.outcome = "null"
    /\ ~last'.threw
    /\ ~Has(last'.user)
    /\ token' = token
    /\ users' = users

C23_Step ==
    /\ last'.op = "signin" => (C23_Minted \/ C23_Refused)
    /\ token' # token => (last'.op # "signin" \/ C23_Minted)

C23_AuthenticateThenUpsert == [][C23_Step]_vars

\* a login was minted, and a later one was refused by the upsert after the
\* provider had accepted its credentials
C23_Witness ==
    /\ last.op = "signin"
    /\ last.stage = "upsert"
    /\ token # EmptyToken
    /\ \E e \in ExternalIds : Has(users[e])

\* C24: a jwt callback without a user never changes rtrUserId, fasttrakId
\* or roles: after a read, whether it reused, refreshed or failed, the
\* token's identity and roles are those the last login stored, and the
\* session callback copies exactly those into session.user, errored or not.
C24_Step ==
    last'.op = "read" =>
        /\ Has(token.rtrUserId) /\ Has(token.fasttrakId) /\ Has(token.roles)
        /\ token'.rtrUserId = token.rtrUserId
        /\ token'.fasttrakId = token.fasttrakId
        /\ token'.roles = token.roles
        /\ Has(session')
        /\ Val(session').userId = token.rtrUserId
        /\ Val(session').roles = token.roles

C24_IdentityStable == [][C24_Step]_vars

\* a read whose refresh failed left an errored session that still names the
\* user and the roles of the login
C24_Witness ==
    /\ WasRead /\ last.outcome = "failed"
    /\ Has(session) /\ Has(Val(session).error)
    /\ Val(session).userId = token.rtrUserId
    /\ Val(session).roles = Some({"Admin"})

\* C25: for two distinct external ids that never logged in, both first
\* logins succeed: with the database up, the upsert of an id that has no
\* record creates one, whatever records exist already, although it supplies
\* no username.
C25_FirstLoginsSucceed ==
    \A e \in ExternalIds :
        ~Has(users[e]) => ~UpsertThrows(users, e, TRUE)

\* a pathname under an entry of ROLE_BASED_ROUTES that lists roles, and the
\* roles of the entries it is under
RoleEntries(pathname) ==
    {i \in DOMAIN ROLE_BASED_ROUTES :
        /\ ROLE_BASED_ROUTES[i].roles # {}
        /\ startsWith(normalizePath(pathname), ROLE_BASED_ROUTES[i].route)}

\* C26: a request to a path under a ROLE_BASED_ROUTES entry with a
\* non-empty role list (/admin, /admin/users, /payment, /booking) passes
\* the routing proxy only if it is authenticated and its token holds at
\* least one of the listed roles; otherwise it is redirected.
C26_RoleRoutesGuarded ==
    (last.op = "route" /\ RoleEntries(last.path) # {} /\ last.outcome = "next") =>
        /\ token # EmptyToken
        /\ Has(token.roles)
        /\ \A i \in RoleEntries(last.path) :
               ROLE_BASED_ROUTES[i].roles \cap Val(token.roles) # {}

\* accessToken and accessTokenExpiresAt are present and
\* t < accessTokenExpiresAt - 10000
FreshAt(tok, t) ==
    /\ Has(tok.accessToken)
    /\ IsNum(tok.accessTokenExpiresAt)
    /\ t < Val(tok.accessTokenExpiresAt).v - 10000

\* C27: with the default 10000 ms buffer the inline jwt callback and the
\* factored jwtCallback make the same reuse-or-refresh decision for every
\* token and clock value: both return the token untouched exactly when
\* accessToken and accessTokenExpiresAt are present and
\* now < accessTokenExpiresAt - 10000, and both go on to refresh otherwise.
C27_SameDecision ==
    /\ \A t \in Instants :
          /\ inlineJwtReuses(token, t) <=> ~shouldRefreshToken(token, t)
          /\ inlineJwtReuses(token, t) <=> FreshAt(token, t)
    /\ WasRead =>
          /\ last.outcome = "reused" <=> inlineJwtReuses(last.pre, now)
          /\ last.outcome = "reused" => token = last.pre

\* one token met both decisions: it was reused by a read just before the
\* threshold and is due for refresh at the threshold
C27_Witness ==
    /\ WasRead /\ last.outcome = "reused"
    /\ \E t \in Instants :
          /\ t = Val(token.accessTokenExpiresAt).v - 10000
          /\ inlineJwtReuses(token, now) /\ ~inlineJwtReuses(token, t)
          /\ now = t - 1

\* C28: in a sequential run of session reads every provider refresh call
\* presents the refresh token most recently stored, together with the
\* fasttrakId set at login: a login stores the token the provider issued, a
\* successful refresh stores the rotated token when the provider returned
\* one and keeps the previous one otherwise, nothing else changes the stored
\* pair, and a call sends exactly the stored pair.
C28_CallPresentsStored ==
    (last'.op = "read" /\ last'.called) =>
        last'.sent = Some([fasttrakId |-> Val(token.fasttrakId),
                           refreshToken |-> Plain(token.refreshToken)])

C28_LoginStores ==
    (last'.op = "signin" /\ last'.outcome = "stored") =>
        /\ Plain(token'.refreshToken) = Val(Val(last'.auth).refreshToken)
        /\ token'.fasttrakId = Some(Val(last'.auth).id)

C28_RefreshStores ==
    (last'.op = "read" /\ last'.outcome = "refreshed") =>
        LET json == Val(last'.res).json
        IN /\ token'.fasttrakId = token.fasttrakId
           /\ Plain(token'.refreshToken) =
                 IF Has(json.refreshToken) THEN Val(json.refreshToken)
                 ELSE Plain(token.refreshToken)

C28_ElseKept ==
    (last'.outcome \notin {"stored", "refreshed", "failed"}) =>
        /\ token'.refreshToken = token.refreshToken
        /\ token'.fasttrakId = token.fasttrakId

C28_PresentsLatestRefreshToken ==
    [][C28_CallPresentsStored /\ C28_LoginStores /\ C28_RefreshStores
          /\ C28_ElseKept]_vars

\* a refresh call presented the token an earlier refresh had rotated to
C28_Witness ==
    /\ WasRead /\ last.called
    /\ Val(last.sent).refreshToken = "r2"
    /\ Val(last.sent).fasttrakId = "u1"

\* the access-token lifetime the provider issued, in ms, exceeds the buffer
LifetimeExceedsBuffer(payload) ==
    /\ Has(payload.accessTokenExpirationSeconds)
    /\ Val(payload.accessTokenExpirationSeconds) * MsPerSecond
          > TOKEN_REFRESH_BUFFER_MS

\* C29: after a successful login or refresh, a session read at the same
\* instant makes no provider call if and only if the access-token lifetime
\* the provider issued, in ms, exceeds the refresh buffer; with a lifetime
\* at or below the buffer, or none, the read triggers another refresh.
C29_AfterLogin ==
    (last.op = "signin" /\ last.outcome = "stored" /\ last'.op = "read") =>
        (~last'.called <=> LifetimeExceedsBuffer(Val(last.auth)))

C29_AfterRefresh ==
    (last.op = "read" /\ last.outcome = "refreshed" /\ last'.op = "read") =>
        (~last'.called <=> LifetimeExceedsBuffer(Val(last.res).json))

C29_ReadAfterIssue == [][C29_AfterLogin /\ C29_AfterRefresh]_vars

\* C30: in one process at most one mongoose.connect call is started whatever
\* the interleaving of connectToDB calls, and every connectToDB call that
\* resolves does so only after the connection is established and returns
\* that connection, also when it starts while another call's connect is in
\* flight or after an earlier connect attempt failed.
C30_OneConnectAndConnected ==
    /\ cached.connects <= 1
    /\ \A c \in Callers :
          calls[c].pc = "returned" =>
              calls[c].result = "conn" /\ cached.conn


====
